---- MODULE Spec2Model ----
(***************************************************************************)
(* State-machine model of the recording buffer (VideoBuffer), of the       *)
(* upload orchestrator (VideoUploadService) and of the recorder component  *)
(* (VideoRecorderStandalone) of react-video-recorder-buffer.               *)
(* Asynchronous methods are split at their await points; every action is   *)
(* the code that runs between two awaits.                                  *)
(***************************************************************************)
EXTENDS Integers, Sequences, FiniteSets, TLC

(* ------------------------------ bounds --------------------------------- *)
MaxAppends == 3        \* addChunk calls per behaviour
MaxTicks == 2          \* clock readings after construction
MaxInits == 1          \* initialize() calls per behaviour
StackLimit == 3        \* call frames the engine allows before RangeError
NumFlush == 2          \* flushToIndexedDB calls that can be in flight at once

(* ------------------------- program constants --------------------------- *)
TickMs == 1000                       \* recorder.start(1000): one chunk per second
maxSize == 10000                     \* config.maxSize (bytes)
maxDuration == 2                     \* config.maxDuration (seconds)
recordingId == "rec"                 \* this.recordingId
Sizes == {100, 7900}                 \* blob.size of the delivered chunks
FlushIds == 1..NumFlush
NoTx == <<"none", 0>>                    \* no readwrite transaction is live
ClearTx == <<"clear", 0>>                \* the transaction of clear()
FlushTx(f) == <<"flush", f>>         \* the transaction of flush call f

VARIABLES
  now,          \* Date.now()
  dbUp,         \* the persistent store accepts open/read/write requests
  autoFlush,    \* this.config.autoFlush
  chunks,       \* this.chunks (the current in-memory array)
  startTime,    \* this.startTime
  store,        \* object store 'chunks' of the database, a set of records
  txOwner,      \* holder of the live readwrite transaction (NoTx if none)
  txUndo,       \* contents of the store when that transaction started
  fl,           \* the flushToIndexedDB calls
  ga,           \* the getAllChunks / createCompleteFinalBlob call
  cl,           \* the clear() call
  lastCall,     \* outcome of the last synchronous call
  appended,     \* history: chunks passed to addChunk since initialize()
  session,      \* history: initialize() and addChunk calls made, whether an
                \* initialize() found records in the store, whether clear() ran
  awaits        \* the caller awaits each asynchronous call before its next call

bufVars == <<now, dbUp, autoFlush, chunks, startTime, store, txOwner, txUndo,
             fl, ga, cl, lastCall, appended, session, awaits>>

VARIABLES
  up,                 \* the uploadVideo calls, by upload id
  activeUploads,      \* keys of this.activeUploads
  progressCallbacks,  \* keys of this.progressCallbacks
  events,             \* the progress events each callback has received
  rows,               \* upload ids with a row in the 'videos' table
  objects             \* upload ids whose blob is in the object store

upVars == <<up, activeUploads, progressCallbacks, events, rows, objects>>

VARIABLES
  filename,           \* the filename passed to sanitizeFilename
  safeFilename,       \* what sanitizeFilename returned
  namePc              \* "call" before sanitizeFilename, "done" after it

nameVars == <<filename, safeFilename, namePc>>

VARIABLES
  isRecording,        \* React state isRecording
  isUploading,        \* React state isUploading
  recId,              \* React state recordingId (0 is null)
  mediaRecorderRef,   \* mediaRecorderRef.current (0 is null)
  bufferRef,          \* bufferRef.current (0 is null), else the recording
                      \* whose VideoBuffer the buffer variables describe
  mr,                 \* the MediaRecorder objects created, and the run of
                      \* handleRecordingStop each one has triggered
  started,            \* startRecording calls made
  mounted,            \* the component is mounted
  supported           \* MediaRecorder.isTypeSupported(mimeType)

recVars == <<isRecording, isUploading, recId, mediaRecorderRef, bufferRef, mr,
             started, mounted, supported>>

\* the fields of a VideoBuffer and the calls made on it
bufState == <<now, dbUp, autoFlush, chunks, startTime, store, txOwner, txUndo,
              fl, ga, cl, lastCall, appended, session>>

(* ------------------------------ helpers -------------------------------- *)
RECURSIVE SumSizes(_)
SumSizes(cs) ==
  IF cs = <<>> THEN 0 ELSE cs[1].size + SumSizes(Tail(cs))

Thrown(e) == [threw |-> TRUE, err |-> e]

\* `${this.recordingId}_${chunk.timestamp}`
ChunkKey(rid, ts) == <<rid, ts>>

\* (now - this.startTime) / 1000 ; clock readings are multiples of TickMs
DurationOf(t, st) == (t - st) \div 1000

\* the chunkData record written by flushToIndexedDB
ChunkData(c) ==
  [id |-> ChunkKey(recordingId, c.timestamp), recordingId |-> recordingId,
   blob |-> c.blob, timestamp |-> c.timestamp, size |-> c.size,
   duration |-> c.duration]

\* store.put(chunkData): keyPath 'id', an existing record with the key is replaced
Put(st, rec) == {r \in st : r.id # rec.id} \cup {rec}

\* index.getAll(recordingId) / index.getAllKeys(recordingId)
RecordsOf(st, rid) == {r \in st : r.recordingId = rid}

\* the records of a recording as a sequence in key order
RECURSIVE SeqOfRecords(_)
SeqOfRecords(rs) ==
  IF rs = {} THEN <<>>
  ELSE LET m == CHOOSE r \in rs : \A q \in rs : r.timestamp <= q.timestamp
       IN <<m>> \o SeqOfRecords(rs \ {m})

\* dbChunks.map(data => ({blob, timestamp, size, duration}))
RECURSIVE MapToChunks(_)
MapToChunks(rs) ==
  IF rs = <<>> THEN <<>>
  ELSE <<[blob |-> rs[1].blob, timestamp |-> rs[1].timestamp,
          size |-> rs[1].size, duration |-> rs[1].duration]>>
       \o MapToChunks(Tail(rs))

\* Array.prototype.sort((a, b) => a.timestamp - b.timestamp), a stable sort
RECURSIVE InsertByTs(_, _)
InsertByTs(c, s) ==
  IF s = <<>> THEN <<c>>
  ELSE IF c.timestamp < s[1].timestamp THEN <<c>> \o s
  ELSE <<s[1]>> \o InsertByTs(c, Tail(s))

RECURSIVE SortByTs(_)
SortByTs(s) ==
  IF s = <<>> THEN <<>>
  ELSE InsertByTs(s[Len(s)], SortByTs(SubSeq(s, 1, Len(s) - 1)))

\* new Blob(allChunks.map(chunk => chunk.blob)): payloads in order, sizes added
RECURSIVE BlobParts(_)
BlobParts(cs) ==
  IF cs = <<>> THEN <<>> ELSE <<cs[1].blob.id>> \o BlobParts(Tail(cs))

NewBlob(cs) == [parts |-> BlobParts(cs), size |-> SumSizes(cs)]

(* ----------------------- getStats / isNearLimit ------------------------ *)
\* getStats() calls isNearLimit() and isNearLimit() calls getStats(); each call
\* takes one frame and the engine raises RangeError when the frames run out.
RECURSIVE getStats(_, _, _, _), isNearLimit(_, _, _, _)
getStats(cs, st, t, depth) ==
  IF depth > StackLimit THEN Thrown("RangeError")
  ELSE LET totalSize == SumSizes(cs)
           totalDuration == IF Len(cs) > 0 THEN t - st ELSE 0   \* in ms
           near == isNearLimit(cs, st, t, depth + 1)
       IN IF near.threw THEN near
          ELSE [threw |-> FALSE, totalSize |-> totalSize,
                totalDuration |-> totalDuration, chunkCount |-> Len(cs),
                memoryUsage |-> totalSize + Len(cs) * 100,
                isNearLimit |-> near.val]

isNearLimit(cs, st, t, depth) ==
  IF depth > StackLimit THEN Thrown("RangeError")
  ELSE LET stats == getStats(cs, st, t, depth + 1)
       IN IF stats.threw THEN stats
          ELSE [threw |-> FALSE,
                val |-> (10 * stats.totalSize >= 8 * maxSize)
                        \/ (10 * stats.totalDuration >= 8 * maxDuration * 1000)]

(* ------------------------------- Init ---------------------------------- *)
IdleFlush == [pc |-> "idle", origin |-> "none", live |-> TRUE, arr |-> <<>>,
              idx |-> 0, err |-> "none"]
IdleGetAll == [pc |-> "idle", mem |-> <<>>, result |-> <<>>,
               blob |-> [parts |-> <<>>, size |-> 0], readFailed |-> FALSE,
               threw |-> FALSE, seq |-> TRUE]
IdleClear == [pc |-> "idle", keys |-> {}, failed |-> FALSE, seq |-> TRUE]
NoCall == [op |-> "none", threw |-> FALSE, err |-> "none", chunkCount |-> 0,
           totalSize |-> 0, near |-> FALSE]

BufInit ==
  /\ now = TickMs
  /\ dbUp = TRUE
  /\ autoFlush \in BOOLEAN
  /\ chunks = <<>>
  /\ startTime = 0
  /\ store = {}
  /\ txOwner = NoTx
  /\ txUndo = {}
  /\ fl = [f \in FlushIds |-> IdleFlush]
  /\ ga = IdleGetAll
  /\ cl = IdleClear
  /\ lastCall = NoCall
  /\ appended = <<>>
  /\ session = [inits |-> 0, dirty |-> FALSE, cleared |-> FALSE, adds |-> 0]
  /\ awaits \in BOOLEAN

(* --------------------------- environment ------------------------------- *)
\* A call has just returned or its promise has just settled: the continuation
\* of its caller runs before any other event handler does.
Returning ==
  \/ lastCall.op # "none"
  \/ ga.pc = "done"
  \/ cl.pc = "done"
  \/ \E f \in FlushIds : fl[f].pc \in {"resolved", "rejected"}

\* no asynchronous call of the buffer is in flight
Quiet ==
  /\ \A f \in FlushIds : fl[f].pc = "idle"
  /\ ga.pc = "idle"
  /\ cl.pc = "idle"

\* a call may be made: nothing is returning, and a caller that awaits has
\* no asynchronous call in flight
CallAllowed == ~Returning /\ (awaits => Quiet)

Tick ==
  /\ ~Returning
  /\ now < (MaxTicks + 1) * TickMs
  /\ now' = now + TickMs
  /\ UNCHANGED <<dbUp, autoFlush, chunks, startTime, store, txOwner, txUndo,
                 fl, ga, cl, lastCall, appended, session>>
  /\ UNCHANGED <<awaits, upVars, nameVars, recVars>>

\* the store becomes unavailable / full, or recovers
DbToggle ==
  /\ ~Returning
  /\ dbUp' = ~dbUp
  /\ UNCHANGED <<now, autoFlush, chunks, startTime, store, txOwner, txUndo,
                 fl, ga, cl, lastCall, appended, session>>
  /\ UNCHANGED <<awaits, upVars, nameVars, recVars>>

FlushInFlight(f) == fl[f].pc \in {"open", "put"}
ClearInFlight == cl.pc \in {"open", "keys", "del"}
GetAllInFlight == ga.pc \in {"open", "read"}

\* a call that runs while getAllChunks / clear is suspended
Disturb(g) == IF g.pc \in {"open", "read"} THEN [g EXCEPT !.seq = FALSE] ELSE g
DisturbC(c) ==
  IF c.pc \in {"open", "keys", "del"} THEN [c EXCEPT !.seq = FALSE] ELSE c

\* this.chunks = [] : the calls iterating the old array keep the old array
Detach(f, old) ==
  IF fl[f].pc = "put" /\ fl[f].live
  THEN [fl[f] EXCEPT !.live = FALSE, !.arr = old]
  ELSE fl[f]

(* ----------------------------- initialize ------------------------------ *)
\* initialize(): this.chunks = []; this.startTime = Date.now()
initialize ==
  /\ chunks' = <<>>
  /\ startTime' = now
  /\ fl' = [f \in FlushIds |-> Detach(f, chunks)]
  /\ ga' = Disturb(ga)
  /\ appended' = <<>>
  /\ session' = [session EXCEPT
                   !.inits = session.inits + 1,
                   !.cleared = FALSE,
                   !.dirty = session.dirty
                             \/ RecordsOf(store, recordingId) # {}
                             \/ \E f \in FlushIds : FlushInFlight(f)]
  /\ cl' = DisturbC(cl)
  /\ UNCHANGED <<now, dbUp, autoFlush, store, txOwner, txUndo, lastCall>>

\* a call of initialize() on the buffer
Initialize ==
  /\ CallAllowed
  /\ session.inits < MaxInits
  /\ initialize
  /\ UNCHANGED <<awaits, upVars, nameVars, recVars>>

(* ------------------------------ addChunk ------------------------------- *)
\* the chunk object built by addChunk
NewChunk(sz) ==
  [blob |-> [id |-> session.adds + 1, size |-> sz],
   timestamp |-> now, size |-> sz, duration |-> DurationOf(now, startTime)]

\* the synchronous part of flushToIndexedDB(), up to its first await
FlushStart(f, cs, origin) ==
  IF Len(cs) = 0
  THEN [IdleFlush EXCEPT !.pc = "resolved", !.origin = origin]
  ELSE [IdleFlush EXCEPT !.pc = "open", !.origin = origin]

\* this.config.autoFlush && this.isNearLimit()
AutoFlushCheck(cs) ==
  IF autoFlush THEN isNearLimit(cs, startTime, now, 1)
  ELSE [threw |-> FALSE, val |-> FALSE]

\* addChunk(blob): push the chunk, then the auto-flush check
addChunk(sz) ==
  /\ LET cs == Append(chunks, NewChunk(sz))
         chk == AutoFlushCheck(cs)
         starts == ~chk.threw /\ chk.val
     IN /\ chunks' = cs
        /\ appended' = Append(appended, NewChunk(sz))
        /\ IF starts
           THEN \E f \in FlushIds :
                  /\ fl[f].pc = "idle"
                  /\ \A g \in FlushIds : g < f => fl[g].pc # "idle"
                  /\ fl' = [fl EXCEPT ![f] = FlushStart(f, cs, "auto")]
           ELSE fl' = fl
        /\ lastCall' = [NoCall EXCEPT !.op = "addChunk", !.threw = chk.threw,
                          !.err = IF chk.threw THEN chk.err ELSE "none"]
  /\ ga' = Disturb(ga)
  /\ cl' = DisturbC(cl)
  /\ session' = [session EXCEPT !.adds = session.adds + 1]
  /\ UNCHANGED <<now, dbUp, autoFlush, startTime, store, txOwner, txUndo>>

\* a call of addChunk(blob) with a blob of sz bytes
AddChunk(sz) ==
  /\ CallAllowed
  /\ session.adds < MaxAppends
  /\ addChunk(sz)
  /\ UNCHANGED <<awaits, upVars, nameVars, recVars>>

(* ------------------------ getStats / isNearLimit calls ----------------- *)
GetStatsCall ==
  /\ CallAllowed
  /\ LET r == getStats(chunks, startTime, now, 1)
     IN lastCall' =
          IF r.threw
          THEN [NoCall EXCEPT !.op = "getStats", !.threw = TRUE, !.err = r.err]
          ELSE [NoCall EXCEPT !.op = "getStats", !.chunkCount = r.chunkCount,
                  !.totalSize = r.totalSize, !.near = r.isNearLimit]
  /\ UNCHANGED <<now, dbUp, autoFlush, chunks, startTime, store, txOwner,
                 txUndo, fl, ga, cl, appended, session>>
  /\ UNCHANGED <<awaits, upVars, nameVars, recVars>>

IsNearLimitCall ==
  /\ CallAllowed
  /\ LET r == isNearLimit(chunks, startTime, now, 1)
     IN lastCall' =
          IF r.threw
          THEN [NoCall EXCEPT !.op = "isNearLimit", !.threw = TRUE, !.err = r.err]
          ELSE [NoCall EXCEPT !.op = "isNearLimit", !.near = r.val]
  /\ UNCHANGED <<now, dbUp, autoFlush, chunks, startTime, store, txOwner,
                 txUndo, fl, ga, cl, appended, session>>
  /\ UNCHANGED <<awaits, upVars, nameVars, recVars>>

\* the caller of addChunk / getStats / isNearLimit has taken the outcome
CallReturn ==
  /\ lastCall.op # "none"
  /\ lastCall' = NoCall
  /\ UNCHANGED <<now, dbUp, autoFlush, chunks, startTime, store, txOwner,
                 txUndo, fl, ga, cl, appended, session>>
  /\ UNCHANGED <<awaits, upVars, nameVars, recVars>>

(* --------------------------- flushToIndexedDB -------------------------- *)
\* an explicit call: if (this.chunks.length === 0) return; else open the store
FlushCall(f) ==
  /\ CallAllowed
  /\ fl[f].pc = "idle"
  /\ \A g \in FlushIds : g < f => fl[g].pc # "idle"
  /\ fl' = [fl EXCEPT ![f] = FlushStart(f, chunks, "explicit")]
  /\ ga' = Disturb(ga)
  /\ cl' = DisturbC(cl)
  /\ UNCHANGED <<now, dbUp, autoFlush, chunks, startTime, store, txOwner,
                 txUndo, lastCall, appended, session>>
  /\ UNCHANGED <<awaits, upVars, nameVars, recVars>>

\* what the catch block of flushToIndexedDB does with a storage error
FlushCatch(rec, e) == [rec EXCEPT !.pc = "rejected", !.err = e]

\* variant: the in-memory list is emptied although the store did not open
FlushOpenedClears(f) ==
  /\ ~Returning
  /\ fl[f].pc = "open"
  /\ IF ~dbUp
     THEN /\ fl' = [fl EXCEPT ![f] = FlushCatch(fl[f], "StorageError")]
          /\ chunks' = <<>>
     ELSE IF Len(chunks) = 0
     THEN /\ chunks' = <<>>
          /\ fl' = [g \in FlushIds |->
                      IF g = f THEN [fl[f] EXCEPT !.pc = "resolved"]
                      ELSE Detach(g, chunks)]
     ELSE /\ fl' = [fl EXCEPT ![f].pc = "put", ![f].idx = 1, ![f].live = TRUE]
          /\ chunks' = chunks
  /\ UNCHANGED <<now, dbUp, autoFlush, startTime, store, txOwner, txUndo, ga,
                 cl, lastCall, appended, session>>
  /\ UNCHANGED <<awaits, upVars, nameVars, recVars>>

\* openIndexedDB() settles; on success the for-of loop takes this.chunks and
\* issues the first put, or finds the array empty and clears it
FlushOpened(f) ==
  /\ ~Returning
  /\ fl[f].pc = "open"
  /\ IF ~dbUp
     THEN /\ fl' = [fl EXCEPT ![f] = FlushCatch(fl[f], "StorageError")]
          /\ chunks' = chunks
     ELSE IF Len(chunks) = 0
     THEN /\ chunks' = <<>>
          /\ fl' = [g \in FlushIds |->
                      IF g = f THEN [fl[f] EXCEPT !.pc = "resolved"]
                      ELSE Detach(g, chunks)]
     ELSE /\ fl' = [fl EXCEPT ![f].pc = "put", ![f].idx = 1, ![f].live = TRUE]
          /\ chunks' = chunks
  /\ UNCHANGED <<now, dbUp, autoFlush, startTime, store, txOwner, txUndo, ga,
                 cl, lastCall, appended, session>>
  /\ UNCHANGED <<awaits, upVars, nameVars, recVars>>

\* the array the for-of loop of call f iterates
FlushArray(f) == IF fl[f].live THEN chunks ELSE fl[f].arr

\* the pending put settles; the loop goes on to the next element of the array
\* or ends, and then this.chunks = []
FlushPutDone(f) ==
  /\ ~Returning
  /\ fl[f].pc = "put"
  /\ txOwner \in {NoTx, FlushTx(f)}
  /\ LET A == FlushArray(f)
         base == IF txOwner = FlushTx(f) THEN txUndo ELSE store
     IN IF ~dbUp
        THEN \* the request fails, the transaction aborts
             /\ store' = base
             /\ txOwner' = NoTx
             /\ txUndo' = {}
             /\ fl' = [fl EXCEPT ![f] = FlushCatch(fl[f], "StorageError")]
             /\ chunks' = chunks
        ELSE /\ store' = Put(store, ChunkData(A[fl[f].idx]))
             /\ IF fl[f].idx < Len(A)
                THEN /\ fl' = [fl EXCEPT ![f].idx = fl[f].idx + 1]
                     /\ txOwner' = FlushTx(f)
                     /\ txUndo' = base
                     /\ chunks' = chunks
                ELSE /\ chunks' = <<>>
                     /\ fl' = [g \in FlushIds |->
                                 IF g = f THEN [fl[f] EXCEPT !.pc = "resolved"]
                                 ELSE Detach(g, chunks)]
                     /\ txOwner' = NoTx
                     /\ txUndo' = {}
  /\ UNCHANGED <<now, dbUp, autoFlush, startTime, ga, cl, lastCall, appended,
                 session>>
  /\ UNCHANGED <<awaits, upVars, nameVars, recVars>>

\* the promise of the call has settled and its holder has seen the outcome
FlushSettle(f) ==
  /\ fl[f].pc \in {"resolved", "rejected"}
  /\ fl' = [fl EXCEPT ![f] = IdleFlush]
  /\ UNCHANGED <<now, dbUp, autoFlush, chunks, startTime, store, txOwner,
                 txUndo, ga, cl, lastCall, appended, session>>
  /\ UNCHANGED <<awaits, upVars, nameVars, recVars>>

(* ------------------ getAllChunks / createCompleteFinalBlob ------------- *)
\* createCompleteFinalBlob awaits getAllChunks(), maps the chunks to their
\* blobs and joins them; ga.result is what getAllChunks returned to it

\* variant: the catch block returns an empty list
ReadFallbackEmpty(g) ==
  [g EXCEPT !.pc = "done", !.readFailed = TRUE, !.result = <<>>,
            !.blob = NewBlob(<<>>)]

\* catch block of getAllChunks: return memoryChunks
ReadFallback(g) ==
  [g EXCEPT !.pc = "done", !.readFailed = TRUE, !.result = g.mem,
            !.blob = NewBlob(g.mem)]

\* [...dbChunks.map(...), ...memoryChunks].sort(by timestamp)
MergeChunks(recs, mem) == SortByTs(MapToChunks(SeqOfRecords(recs)) \o mem)

\* const memoryChunks = [...this.chunks]; then the store is opened
createCompleteFinalBlob ==
  /\ ga' = [IdleGetAll EXCEPT !.pc = "open", !.mem = chunks,
              !.seq = /\ \A f \in FlushIds : ~FlushInFlight(f)
                      /\ ~ClearInFlight]
  /\ UNCHANGED <<now, dbUp, autoFlush, chunks, startTime, store, txOwner,
                 txUndo, fl, cl, lastCall, appended, session>>

\* a call of getAllChunks() / createCompleteFinalBlob()
GetAllCall ==
  /\ CallAllowed
  /\ ga.pc = "idle"
  /\ createCompleteFinalBlob
  /\ UNCHANGED <<awaits, upVars, nameVars, recVars>>

GetAllOpened ==
  /\ ~Returning
  /\ ga.pc = "open"
  /\ ga' = IF dbUp THEN [ga EXCEPT !.pc = "read"] ELSE ReadFallback(ga)
  /\ UNCHANGED <<now, dbUp, autoFlush, chunks, startTime, store, txOwner,
                 txUndo, fl, cl, lastCall, appended, session>>
  /\ UNCHANGED <<awaits, upVars, nameVars, recVars>>

\* index.getAll(recordingId) settles; a readonly transaction runs when no
\* readwrite transaction on the store is live
GetAllRead ==
  /\ ~Returning
  /\ ga.pc = "read"
  /\ txOwner = NoTx
  /\ ga' = IF dbUp
           THEN LET all == MergeChunks(RecordsOf(store, recordingId), ga.mem)
                IN [ga EXCEPT !.pc = "done", !.result = all,
                              !.blob = NewBlob(all)]
           ELSE ReadFallback(ga)
  /\ UNCHANGED <<now, dbUp, autoFlush, chunks, startTime, store, txOwner,
                 txUndo, fl, cl, lastCall, appended, session>>
  /\ UNCHANGED <<awaits, upVars, nameVars, recVars>>

\* the caller awaiting getAllChunks / createCompleteFinalBlob takes the result
GetAllReturn ==
  /\ ga.pc = "done"
  /\ ga' = IdleGetAll
  /\ UNCHANGED <<now, dbUp, autoFlush, chunks, startTime, store, txOwner,
                 txUndo, fl, cl, lastCall, appended, session>>
  /\ UNCHANGED <<awaits, upVars, nameVars, recVars>>

(* -------------------------------- clear -------------------------------- *)
\* catch block of clear(): the error is logged, the call returns normally
ClearCatch(c) == [c EXCEPT !.pc = "done", !.failed = TRUE, !.keys = {}]

\* this.chunks = []; then the store is opened
clear ==
  /\ chunks' = <<>>
  /\ fl' = [f \in FlushIds |-> Detach(f, chunks)]
  /\ cl' = [IdleClear EXCEPT !.pc = "open",
              !.seq = /\ \A f \in FlushIds : ~FlushInFlight(f)
                      /\ ~GetAllInFlight]
  /\ ga' = Disturb(ga)
  /\ session' = [session EXCEPT !.cleared = TRUE]
  /\ UNCHANGED <<now, dbUp, autoFlush, startTime, store, txOwner, txUndo,
                 lastCall, appended>>

\* a call of clear()
ClearCall ==
  /\ CallAllowed
  /\ cl.pc = "idle"
  /\ clear
  /\ UNCHANGED <<awaits, upVars, nameVars, recVars>>

ClearOpened ==
  /\ ~Returning
  /\ cl.pc = "open"
  /\ cl' = IF dbUp THEN [cl EXCEPT !.pc = "keys"] ELSE ClearCatch(cl)
  /\ UNCHANGED <<now, dbUp, autoFlush, chunks, startTime, store, txOwner,
                 txUndo, fl, ga, lastCall, appended, session>>
  /\ UNCHANGED <<awaits, upVars, nameVars, recVars>>

\* index.getAllKeys(recordingId) settles
ClearKeys ==
  /\ ~Returning
  /\ cl.pc = "keys"
  /\ txOwner = NoTx
  /\ LET keys == {r.id : r \in RecordsOf(store, recordingId)}
     IN IF ~dbUp
        THEN /\ cl' = ClearCatch(cl)
             /\ UNCHANGED <<txOwner, txUndo>>
        ELSE IF keys = {}
        THEN /\ cl' = [cl EXCEPT !.pc = "done"]
             /\ UNCHANGED <<txOwner, txUndo>>
        ELSE /\ cl' = [cl EXCEPT !.pc = "del", !.keys = keys]
             /\ txOwner' = ClearTx
             /\ txUndo' = store
  /\ UNCHANGED <<now, dbUp, autoFlush, chunks, startTime, store, fl, ga,
                 lastCall, appended, session>>
  /\ UNCHANGED <<awaits, upVars, nameVars, recVars>>

\* store.delete(key) settles for the next key of the list
ClearDel ==
  /\ ~Returning
  /\ cl.pc = "del"
  /\ txOwner = ClearTx
  /\ IF ~dbUp
     THEN /\ store' = txUndo
          /\ cl' = ClearCatch(cl)
          /\ txOwner' = NoTx
          /\ txUndo' = {}
     ELSE LET k == CHOOSE x \in cl.keys : \A y \in cl.keys : x[2] <= y[2]
              rest == cl.keys \ {k}
          IN /\ store' = {r \in store : r.id # k}
             /\ IF rest = {}
                THEN /\ cl' = [cl EXCEPT !.pc = "done", !.keys = {}]
                     /\ txOwner' = NoTx
                     /\ txUndo' = {}
                ELSE /\ cl' = [cl EXCEPT !.keys = rest]
                     /\ UNCHANGED <<txOwner, txUndo>>
  /\ UNCHANGED <<now, dbUp, autoFlush, chunks, startTime, fl, ga, lastCall,
                 appended, session>>
  /\ UNCHANGED <<awaits, upVars, nameVars, recVars>>

\* the caller awaiting clear() resumes
ClearReturn ==
  /\ cl.pc = "done"
  /\ cl' = IdleClear
  /\ UNCHANGED <<now, dbUp, autoFlush, chunks, startTime, store, txOwner,
                 txUndo, fl, ga, lastCall, appended, session>>
  /\ UNCHANGED <<awaits, upVars, nameVars, recVars>>

(* ------------------------------ buffer spec ---------------------------- *)
\* the steps of the asynchronous calls, taken when the store answers
StoreSteps ==
  \/ \E f \in FlushIds : FlushOpened(f)
  \/ \E f \in FlushIds : FlushPutDone(f)
  \/ \E f \in FlushIds : FlushSettle(f)
  \/ GetAllOpened
  \/ GetAllRead
  \/ GetAllReturn
  \/ ClearOpened
  \/ ClearKeys
  \/ ClearDel
  \/ ClearReturn

\* the calls made on the buffer
BufferCalls ==
  \/ Initialize
  \/ \E sz \in Sizes : AddChunk(sz)
  \/ GetStatsCall
  \/ IsNearLimitCall
  \/ CallReturn
  \/ \E f \in FlushIds : FlushCall(f)
  \/ GetAllCall
  \/ ClearCall

BufNext ==
  \/ Tick
  \/ DbToggle
  \/ BufferCalls
  \/ StoreSteps

(* ========================= VideoUploadService ========================== *)
MaxUploads == 2                      \* uploadVideo calls per behaviour
chunkSize == 2                       \* config.chunkSize
maxRetries == 3                      \* config.maxRetries
BlobSizes == {4, 5}                  \* blob.size: twice the chunk size, and more
UploadIds == 1..MaxUploads

NoResult == [success |-> FALSE, uploadId |-> 0, error |-> "none",
             hasPath |-> FALSE]
IdleUpload == [pc |-> "idle", size |-> 0, strategy |-> "none", i |-> 0,
               uploadedBytes |-> 0, aborted |-> FALSE, auth |-> "none",
               tx |-> "none", meta |-> "none", sawAbort |-> FALSE,
               attempts |-> 0, result |-> NoResult]

UpInit ==
  /\ up = [u \in UploadIds |-> IdleUpload]
  /\ activeUploads = {}
  /\ progressCallbacks = {}
  /\ events = [u \in UploadIds |-> <<>>]
  /\ rows = {}
  /\ objects = {}

\* the object updateProgress builds: the defaults, overridden by the updates
DefaultProgress ==
  [status |-> "pending", percentage |-> 0, bytesUploaded |-> 0,
   totalBytes |-> 0, error |-> "none"]

ProgressOf(updates) ==
  [k \in DOMAIN DefaultProgress |->
     IF k \in DOMAIN updates THEN updates[k] ELSE DefaultProgress[k]]

\* variant: the event is delivered whether or not a callback is registered
updateProgressAlways(evs, cbs, u, updates) ==
  [evs EXCEPT ![u] = Append(evs[u], ProgressOf(updates))]

\* updateProgress(uploadId, updates): the callback, if one is registered,
\* is called with the object
updateProgress(evs, cbs, u, updates) ==
  IF u \in cbs THEN [evs EXCEPT ![u] = Append(evs[u], ProgressOf(updates))]
  ELSE evs

\* Math.ceil(totalSize / chunkSize)
TotalChunks(sz) == (sz + chunkSize - 1) \div chunkSize

\* chunks[i].size for blob.slice(i * chunkSize, min(i * chunkSize + chunkSize, sz))
SliceSize(sz, i) ==
  LET start == i * chunkSize
      end == IF start + chunkSize < sz THEN start + chunkSize ELSE sz
  IN end - start

\* (uploadedBytes / totalSize) * 100 ; exact for the sizes of BlobSizes
Percentage(bytes, total) == (bytes * 100) \div total

\* variant: the catch block rethrows instead of returning a result
CatchRethrows(rec, u, msg) == [rec EXCEPT !.pc = "threw"]

\* catch block of uploadVideo: report the error, clean up, return the failure
CatchResult(rec, u, msg) ==
  [rec EXCEPT !.pc = "returned",
              !.result = [success |-> FALSE, uploadId |-> u, error |-> msg,
                          hasPath |-> FALSE]]

\* variant: the catch block returns without cleanup(uploadId)
FailKeepsHandle(u, rec, msg) ==
  /\ up' = [up EXCEPT ![u] = CatchResult(rec, u, msg)]
  /\ events' = updateProgress(events, progressCallbacks, u,
                              [status |-> "error", error |-> msg])
  /\ UNCHANGED <<activeUploads, progressCallbacks, rows, objects>>

\* the catch block of uploadVideo, entered with the message msg
Fail(u, rec, msg) ==
  /\ up' = [up EXCEPT ![u] = CatchResult(rec, u, msg)]
  /\ events' = updateProgress(events, progressCallbacks, u,
                              [status |-> "error", error |-> msg])
  /\ activeUploads' = activeUploads \ {u}
  /\ progressCallbacks' = progressCallbacks \ {u}
  /\ UNCHANGED <<rows, objects>>

\* uploadVideo up to its first await (supabase.auth.getUser())
uploadVideo(u, sz, cb) ==
  /\ up[u].pc = "idle"
  /\ \A v \in UploadIds : v < u => up[v].pc # "idle"
  /\ up' = [up EXCEPT ![u] = [IdleUpload EXCEPT !.pc = "auth", !.size = sz]]
  /\ activeUploads' = activeUploads \cup {u}
  /\ progressCallbacks' = IF cb THEN progressCallbacks \cup {u}
                          ELSE progressCallbacks
  /\ events' = updateProgress(events, progressCallbacks', u,
                              [status |-> "pending", percentage |-> 0,
                               bytesUploaded |-> 0, totalBytes |-> sz])
  /\ UNCHANGED <<rows, objects>>

\* a call of uploadVideo with a blob of sz bytes, with or without onProgress
UploadCall(u, sz, cb) ==
  /\ uploadVideo(u, sz, cb)
  /\ UNCHANGED <<bufVars, nameVars, recVars>>

\* variant: the outcome of getUser() is not looked at
NoPrincipalIgnored(ok) == FALSE

\* userError || !user
NoPrincipal(ok) == ~ok

\* getUser() settles; the strategy is chosen and runs up to its first await
AuthDone(u, ok) ==
  /\ up[u].pc = "auth"
  /\ LET rec == [up[u] EXCEPT !.auth = IF ok THEN "ok" ELSE "fail"]
     IN IF NoPrincipal(ok)
        THEN Fail(u, rec, "User not authenticated")
        ELSE IF up[u].size > chunkSize * 2
        THEN \* chunkedUpload: the first pass of the simulation loop
             IF up[u].aborted
             THEN /\ up' = [up EXCEPT ![u] =
                             CatchResult([rec EXCEPT !.strategy = "chunked",
                                                     !.sawAbort = TRUE],
                                         u, "Upload cancelled")]
                  /\ events' = updateProgress(
                                 updateProgress(events, progressCallbacks, u,
                                                [status |-> "uploading"]),
                                 progressCallbacks, u,
                                 [status |-> "error",
                                  error |-> "Upload cancelled"])
                  /\ activeUploads' = activeUploads \ {u}
                  /\ progressCallbacks' = progressCallbacks \ {u}
                  /\ UNCHANGED <<rows, objects>>
             ELSE /\ up' = [up EXCEPT ![u] = [rec EXCEPT !.pc = "sim",
                                                       !.strategy = "chunked"]]
                  /\ events' = updateProgress(events, progressCallbacks, u,
                                              [status |-> "uploading"])
                  /\ UNCHANGED <<activeUploads, progressCallbacks, rows,
                                 objects>>
        ELSE \* directUpload: the upload request is sent
             /\ up' = [up EXCEPT ![u] = [rec EXCEPT !.pc = "transmit",
                                                  !.strategy = "direct",
                                                  !.attempts = @ + 1]]
             /\ events' = updateProgress(events, progressCallbacks, u,
                                         [status |-> "uploading"])
             /\ UNCHANGED <<activeUploads, progressCallbacks, rows, objects>>
  /\ UNCHANGED <<bufVars, nameVars, recVars>>

\* the 100 ms timer of the simulation loop fires
SimStep(u) ==
  /\ up[u].pc = "sim"
  /\ LET bytes == up[u].uploadedBytes + SliceSize(up[u].size, up[u].i)
         evs == updateProgress(events, progressCallbacks, u,
                  [bytesUploaded |-> bytes,
                   percentage |-> Percentage(bytes, up[u].size)])
         rec == [up[u] EXCEPT !.uploadedBytes = bytes, !.i = up[u].i + 1]
     IN IF up[u].i + 1 < TotalChunks(up[u].size)
        THEN IF up[u].aborted
             THEN /\ up' = [up EXCEPT ![u] =
                             CatchResult([rec EXCEPT !.sawAbort = TRUE], u,
                                         "Upload cancelled")]
                  /\ events' = updateProgress(evs, progressCallbacks, u,
                                 [status |-> "error",
                                  error |-> "Upload cancelled"])
                  /\ activeUploads' = activeUploads \ {u}
                  /\ progressCallbacks' = progressCallbacks \ {u}
                  /\ UNCHANGED <<rows, objects>>
             ELSE /\ up' = [up EXCEPT ![u] = rec]
                  /\ events' = evs
                  /\ UNCHANGED <<activeUploads, progressCallbacks, rows,
                                 objects>>
        ELSE \* the loop is over: the whole blob is sent
             /\ up' = [up EXCEPT ![u] = [rec EXCEPT !.pc = "transmit",
                                                  !.attempts = @ + 1]]
             /\ events' = evs
             /\ UNCHANGED <<activeUploads, progressCallbacks, rows, objects>>
  /\ UNCHANGED <<bufVars, nameVars, recVars>>

\* storage.upload() settles; on success uploadVideo goes on to the insert
TransmitDone(u, ok) ==
  /\ up[u].pc = "transmit"
  /\ LET rec == [up[u] EXCEPT !.tx = IF ok THEN "ok" ELSE "fail"]
     IN IF ~ok
        THEN Fail(u, rec, IF up[u].aborted THEN "AbortError"
                          ELSE "StorageError")
        ELSE /\ up' = [up EXCEPT ![u] = [rec EXCEPT !.pc = "meta"]]
             /\ objects' = objects \cup {u}
             /\ events' =
                  updateProgress(
                    IF up[u].strategy = "direct"
                    THEN updateProgress(events, progressCallbacks, u,
                           [bytesUploaded |-> up[u].size, percentage |-> 100])
                    ELSE events,
                    progressCallbacks, u, [status |-> "processing"])
             /\ UNCHANGED <<activeUploads, progressCallbacks, rows>>
  /\ UNCHANGED <<bufVars, nameVars, recVars>>

\* variant: storeVideoMetadata throws the error of the insert
MetaDoneThrows(u, ok) ==
  /\ up[u].pc = "meta"
  /\ IF ok
     THEN /\ rows' = rows \cup {u}
          /\ events' = updateProgress(events, progressCallbacks, u,
                                      [status |-> "completed",
                                       percentage |-> 100])
          /\ up' = [up EXCEPT ![u] =
                      [up[u] EXCEPT !.pc = "returned", !.meta = "ok",
                                    !.result = [success |-> TRUE,
                                                uploadId |-> u,
                                                error |-> "none",
                                                hasPath |-> TRUE]]]
          /\ activeUploads' = activeUploads \ {u}
          /\ progressCallbacks' = progressCallbacks \ {u}
          /\ UNCHANGED objects
     ELSE Fail(u, [up[u] EXCEPT !.meta = "fail"], "InsertError")
  /\ UNCHANGED <<bufVars, nameVars, recVars>>

\* the insert into 'videos' settles; its error is logged, never thrown
MetaDone(u, ok) ==
  /\ up[u].pc = "meta"
  /\ rows' = IF ok THEN rows \cup {u} ELSE rows
  /\ events' = updateProgress(events, progressCallbacks, u,
                              [status |-> "completed", percentage |-> 100])
  /\ up' = [up EXCEPT ![u] =
              [up[u] EXCEPT !.pc = "returned",
                            !.meta = IF ok THEN "ok" ELSE "fail",
                            !.result = [success |-> TRUE, uploadId |-> u,
                                        error |-> "none", hasPath |-> TRUE]]]
  /\ activeUploads' = activeUploads \ {u}
  /\ progressCallbacks' = progressCallbacks \ {u}
  /\ UNCHANGED objects
  /\ UNCHANGED <<bufVars, nameVars, recVars>>

\* variant: cancelUpload leaves the progress callback registered
CancelEffectKeepsCallback(ids) ==
  /\ up' = [u \in UploadIds |->
              IF u \in ids THEN [up[u] EXCEPT !.aborted = TRUE] ELSE up[u]]
  /\ events' = [u \in UploadIds |->
                  IF u \in ids /\ u \in progressCallbacks
                  THEN Append(events[u], ProgressOf([status |-> "cancelled"]))
                  ELSE events[u]]
  /\ activeUploads' = activeUploads \ ids
  /\ UNCHANGED <<progressCallbacks, rows, objects>>

\* the body of cancelUpload for the ids that have a controller: abort(),
\* the cancelled event, cleanup
CancelEffect(ids) ==
  /\ up' = [u \in UploadIds |->
              IF u \in ids THEN [up[u] EXCEPT !.aborted = TRUE] ELSE up[u]]
  /\ events' = [u \in UploadIds |->
                  IF u \in ids /\ u \in progressCallbacks
                  THEN Append(events[u], ProgressOf([status |-> "cancelled"]))
                  ELSE events[u]]
  /\ activeUploads' = activeUploads \ ids
  /\ progressCallbacks' = progressCallbacks \ ids
  /\ UNCHANGED <<rows, objects>>

\* variant: cancelUpload aborts every controller of the map
CancelUploadAll(u) ==
  /\ IF u \in activeUploads
     THEN CancelEffect(activeUploads)
     ELSE UNCHANGED upVars
  /\ UNCHANGED <<bufVars, nameVars, recVars>>

\* cancelUpload(uploadId): nothing happens without a controller for the id
CancelUpload(u) ==
  /\ IF u \in activeUploads
     THEN CancelEffect({u})
     ELSE UNCHANGED upVars
  /\ UNCHANGED <<bufVars, nameVars, recVars>>

\* cancelAllUploads(): cancelUpload for every key of the map
CancelAllUploads ==
  /\ activeUploads # {}
  /\ CancelEffect(activeUploads)
  /\ UNCHANGED <<bufVars, nameVars, recVars>>

UpNext ==
  \/ \E u \in UploadIds, sz \in BlobSizes, cb \in BOOLEAN : UploadCall(u, sz, cb)
  \/ \E u \in UploadIds, ok \in BOOLEAN : AuthDone(u, ok)
  \/ \E u \in UploadIds : SimStep(u)
  \/ \E u \in UploadIds, ok \in BOOLEAN : TransmitDone(u, ok)
  \/ \E u \in UploadIds, ok \in BOOLEAN : MetaDone(u, ok)
  \/ \E u \in UploadIds : CancelUpload(u)
  \/ CancelAllUploads

(* ------------------------- filename sanitization ----------------------- *)
MaxNameLen == 4                      \* length of the filenames enumerated

\* the characters of the class [a-zA-Z0-9.-]
SafeChars ==
  {"a", "b", "c", "d", "e", "f", "g", "h", "i", "j", "k", "l", "m",
   "n", "o", "p", "q", "r", "s", "t", "u", "v", "w", "x", "y", "z",
   "A", "B", "C", "D", "E", "F", "G", "H", "I", "J", "K", "L", "M",
   "N", "O", "P", "Q", "R", "S", "T", "U", "V", "W", "X", "Y", "Z",
   "0", "1", "2", "3", "4", "5", "6", "7", "8", "9", ".", "-"}

\* the characters the enumerated filenames are made of
NameChars == {"a", ".", "_", " ", "!"}

\* "my video!.webm"
ExampleName ==
  <<"m", "y", " ", "v", "i", "d", "e", "o", "!", ".", "w", "e", "b", "m">>

Filenames ==
  UNION {[1..n -> NameChars] : n \in 0..MaxNameLen} \cup {ExampleName}

\* .replace(/[^a-zA-Z0-9.-]/g, '_')
ReplaceUnsafe(str) ==
  [i \in 1..Len(str) |-> IF str[i] \in SafeChars THEN str[i] ELSE "_"]

\* .replace(/__+/g, '_'): each run of two or more '_' becomes one '_'
RECURSIVE CollapseUnderscores(_)
CollapseUnderscores(str) ==
  IF Len(str) <= 1 THEN str
  ELSE IF str[1] = "_" /\ str[2] = "_" THEN CollapseUnderscores(Tail(str))
  ELSE <<str[1]>> \o CollapseUnderscores(Tail(str))

\* variant: a '_' at either end is left in place
TrimNothing(str) == str

\* .replace(/^_|_$/g, ''): a '_' at the start is removed, then a '_' at the end
TrimEdges(str) ==
  LET a == IF Len(str) >= 1 /\ str[1] = "_" THEN Tail(str) ELSE str
  IN IF Len(a) >= 1 /\ a[Len(a)] = "_" THEN SubSeq(a, 1, Len(a) - 1) ELSE a

sanitizeFilename(name) == TrimEdges(CollapseUnderscores(ReplaceUnsafe(name)))

NameIdle ==
  /\ filename = <<>>
  /\ safeFilename = <<>>
  /\ namePc = "call"

\* const safeFilename = this.sanitizeFilename(filename)
SanitizeFilename ==
  /\ namePc = "call"
  /\ safeFilename' = sanitizeFilename(filename)
  /\ namePc' = "done"
  /\ UNCHANGED <<filename, bufVars, upVars, recVars>>

(* ====================== VideoRecorderStandalone ======================== *)
MaxStarts == 2                       \* startRecording calls per behaviour
RecIds == 1..MaxStarts

\* a MediaRecorder: its state, the events it has queued, what made it
\* inactive, the recordingId seen
\* by the handleRecordingStop its onstop handler calls (0 is null), and where
\* that call of handleRecordingStop stands
NoRecorder ==
  [state |-> "none", startPending |-> FALSE, stopPending |-> FALSE,
   finalData |-> FALSE, cause |-> "none", closureId |-> 0, h |-> "none",
   blob |-> [parts |-> <<>>, size |-> 0], uploadId |-> 0]

RecInit ==
  /\ isRecording = FALSE
  /\ isUploading = FALSE
  /\ recId = 0
  /\ mediaRecorderRef = 0
  /\ bufferRef = 0
  /\ mr = [i \in RecIds |-> NoRecorder]
  /\ started = 0
  /\ mounted = TRUE
  /\ supported \in BOOLEAN

\* resetRecordingState(): setIsRecording(false), setRecordingId(null),
\* mediaRecorderRef.current = null
resetRecordingState ==
  /\ isRecording' = FALSE
  /\ recId' = 0
  /\ mediaRecorderRef' = 0

\* handleError(message): setError, onError, resetRecordingState()
handleError == resetRecordingState

\* recorder.stop(), an error, or the end of the stream's tracks: the recorder
\* becomes inactive and queues a last dataavailable event and the stop event
Inactivate(r, cause) ==
  [r EXCEPT !.state = "inactive", !.stopPending = TRUE, !.finalData = TRUE,
            !.cause = cause]

\* the start button is clicked: it is rendered while !isRecording and is
\* enabled while !isUploading. The recorder made here calls, on its stop
\* event, the handleRecordingStop of the render the click came from, whose
\* recordingId is the state before setRecordingId(newRecordingId).
startRecording ==
  /\ mounted
  /\ ~Returning
  /\ ~isRecording
  /\ ~isUploading
  /\ started < MaxStarts
  /\ LET i == started + 1
     IN /\ started' = i
        /\ bufferRef' = i
        /\ initialize
        /\ IF supported
           THEN /\ recId' = i
                /\ mediaRecorderRef' = i
                /\ mr' = [mr EXCEPT ![i] =
                            [NoRecorder EXCEPT !.state = "recording",
                                               !.startPending = TRUE,
                                               !.closureId = recId]]
                /\ UNCHANGED isRecording
           ELSE /\ handleError
                /\ UNCHANGED mr
  /\ UNCHANGED <<isUploading, mounted, supported>>
  /\ UNCHANGED <<awaits, upVars, nameVars>>

\* recorder.onstart: setIsRecording(true)
RecorderOnStart(i) ==
  /\ ~Returning
  /\ mr[i].startPending
  /\ mr' = [mr EXCEPT ![i].startPending = FALSE]
  /\ isRecording' = TRUE
  /\ UNCHANGED <<isUploading, recId, mediaRecorderRef, bufferRef, started,
                 mounted, supported>>
  /\ UNCHANGED <<bufVars, upVars, nameVars>>

\* recorder.ondataavailable with data of sz > 0 bytes: addChunk on the
\* current buffer; the event comes every second while the recorder records,
\* and once more when it becomes inactive
RecorderOnDataAvailable(i, sz) ==
  /\ CallAllowed
  /\ ~mr[i].startPending
  /\ mr[i].state = "recording" \/ mr[i].finalData
  /\ bufferRef # 0
  /\ session.adds < MaxAppends
  /\ addChunk(sz)
  /\ mr' = [mr EXCEPT ![i].finalData = FALSE]
  /\ UNCHANGED <<isRecording, isUploading, recId, mediaRecorderRef, bufferRef,
                 started, mounted, supported>>
  /\ UNCHANGED <<awaits, upVars, nameVars>>

\* addChunk has returned to the event handler, or thrown out of it
RecorderOnDataAvailableReturn ==
  /\ lastCall.op = "addChunk"
  /\ CallReturn

\* the statistics timer (every second while isRecording): getStats()
UpdateStats ==
  /\ mounted
  /\ isRecording
  /\ bufferRef # 0
  /\ GetStatsCall

\* ... and, if getStats() returned, handleError when stats.isNearLimit
UpdateStatsReturn ==
  /\ lastCall.op = "getStats"
  /\ lastCall' = NoCall
  /\ IF ~lastCall.threw /\ lastCall.near
     THEN /\ handleError
          /\ UNCHANGED <<isUploading, bufferRef, mr, started, mounted,
                         supported>>
     ELSE UNCHANGED recVars
  /\ UNCHANGED <<now, dbUp, autoFlush, chunks, startTime, store, txOwner,
                 txUndo, fl, ga, cl, appended, session>>
  /\ UNCHANGED <<awaits, upVars, nameVars>>

\* the stop button is clicked: mediaRecorderRef.current.stop() if
\* mediaRecorderRef.current && isRecording (stop() on an inactive recorder
\* throws and changes nothing)
stopRecording ==
  /\ mounted
  /\ ~Returning
  /\ isRecording
  /\ mediaRecorderRef # 0
  /\ mr[mediaRecorderRef].state = "recording"
  /\ mr' = [mr EXCEPT ![mediaRecorderRef] = Inactivate(mr[mediaRecorderRef], "stop")]
  /\ UNCHANGED <<isRecording, isUploading, recId, mediaRecorderRef, bufferRef,
                 started, mounted, supported>>
  /\ UNCHANGED <<bufVars, upVars, nameVars>>

\* recorder.onerror: handleError; the recorder becomes inactive
RecorderOnError(i) ==
  /\ ~Returning
  /\ mr[i].state = "recording"
  /\ ~mr[i].startPending
  /\ mr' = [mr EXCEPT ![i] = Inactivate(mr[i], "error")]
  /\ handleError
  /\ UNCHANGED <<isUploading, bufferRef, started, mounted, supported>>
  /\ UNCHANGED <<bufVars, upVars, nameVars>>

\* recorder.onstop: handleRecordingStop() up to its first await. It returns
\* at once if (!bufferRef.current || !uploadServiceRef.current || !recordingId);
\* the upload service exists from the first effect on.
handleRecordingStop(i) ==
  /\ ~Returning
  /\ mr[i].stopPending
  /\ ~mr[i].startPending
  /\ IF bufferRef = 0 \/ mr[i].closureId = 0
     THEN /\ mr' = [mr EXCEPT ![i].stopPending = FALSE, ![i].finalData = FALSE,
                              ![i].h = "skipped"]
          /\ UNCHANGED <<isRecording, isUploading>>
          /\ UNCHANGED bufState
     ELSE /\ ga.pc = "idle"
          /\ mr' = [mr EXCEPT ![i].stopPending = FALSE, ![i].finalData = FALSE,
                              ![i].h = "blob"]
          /\ isRecording' = FALSE
          /\ isUploading' = TRUE
          /\ createCompleteFinalBlob
  /\ UNCHANGED <<recId, mediaRecorderRef, bufferRef, started, mounted,
                 supported>>
  /\ UNCHANGED <<awaits, upVars, nameVars>>

\* createCompleteFinalBlob() has resolved: finalBlob; getVideoResolution(
\* finalBlob) is awaited next
StopBlobReady(i) ==
  /\ mr[i].h = "blob"
  /\ ga.pc = "done"
  /\ mr' = [mr EXCEPT ![i].h = "resolution", ![i].blob = ga.blob]
  /\ ga' = IdleGetAll
  /\ UNCHANGED <<now, dbUp, autoFlush, chunks, startTime, store, txOwner,
                 txUndo, fl, cl, lastCall, appended, session>>
  /\ UNCHANGED <<isRecording, isUploading, recId, mediaRecorderRef, bufferRef,
                 started, mounted, supported>>
  /\ UNCHANGED <<awaits, upVars, nameVars>>

\* getVideoResolution has resolved: uploadVideo(finalBlob, filename, metadata,
\* setUploadProgress). sz is the size of the blob on the scale of the
\* service's chunk size.
StopUpload(i, u, sz) ==
  /\ mr[i].h = "resolution"
  /\ uploadVideo(u, sz, TRUE)
  /\ mr' = [mr EXCEPT ![i].h = "upload", ![i].uploadId = u]
  /\ UNCHANGED <<isRecording, isUploading, recId, mediaRecorderRef, bufferRef,
                 started, mounted, supported>>
  /\ UNCHANGED <<bufVars, nameVars>>

\* uploadVideo has resolved: onRecordingComplete and resetRecordingState() on
\* success, handleError otherwise; then the finally block:
\* setIsUploading(false) and bufferRef.current.clear() up to its first await
StopUploaded(i) ==
  /\ mr[i].h = "upload"
  /\ up[mr[i].uploadId].pc = "returned"
  /\ CallAllowed
  /\ cl.pc = "idle"
  /\ IF up[mr[i].uploadId].result.success
     THEN resetRecordingState
     ELSE handleError
  /\ isUploading' = FALSE
  /\ clear
  /\ mr' = [mr EXCEPT ![i].h = "clear"]
  /\ UNCHANGED <<bufferRef, started, mounted, supported>>
  /\ UNCHANGED <<awaits, upVars, nameVars>>

\* clear() has resolved: handleRecordingStop returns
StopCleared(i) ==
  /\ mr[i].h = "clear"
  /\ cl.pc = "done"
  /\ mr' = [mr EXCEPT ![i].h = "returned"]
  /\ cl' = IdleClear
  /\ UNCHANGED <<now, dbUp, autoFlush, chunks, startTime, store, txOwner,
                 txUndo, fl, ga, lastCall, appended, session>>
  /\ UNCHANGED <<isRecording, isUploading, recId, mediaRecorderRef, bufferRef,
                 started, mounted, supported>>
  /\ UNCHANGED <<awaits, upVars, nameVars>>

\* the component unmounts: the stream's tracks are stopped, which makes every
\* recording recorder inactive, and cancelAllUploads() is called
Unmount ==
  /\ mounted
  /\ ~Returning
  /\ mounted' = FALSE
  /\ mr' = [i \in RecIds |->
              IF mr[i].state = "recording" THEN Inactivate(mr[i], "ended")
              ELSE mr[i]]
  /\ CancelEffect(activeUploads)
  /\ UNCHANGED <<isRecording, isUploading, recId, mediaRecorderRef, bufferRef,
                 started, supported>>
  /\ UNCHANGED <<bufVars, nameVars>>

RecNext ==
  \/ Tick
  \/ startRecording
  \/ \E i \in RecIds : RecorderOnStart(i)
  \/ \E i \in RecIds, sz \in Sizes : RecorderOnDataAvailable(i, sz)
  \/ RecorderOnDataAvailableReturn
  \/ UpdateStats
  \/ UpdateStatsReturn
  \/ stopRecording
  \/ \E i \in RecIds : RecorderOnError(i)
  \/ \E i \in RecIds : handleRecordingStop(i)
  \/ GetAllOpened
  \/ GetAllRead
  \/ \E i \in RecIds : StopBlobReady(i)
  \/ \E i \in RecIds, u \in UploadIds, sz \in BlobSizes : StopUpload(i, u, sz)
  \/ \E u \in UploadIds, ok \in BOOLEAN : AuthDone(u, ok)
  \/ \E u \in UploadIds : SimStep(u)
  \/ \E u \in UploadIds, ok \in BOOLEAN : TransmitDone(u, ok)
  \/ \E u \in UploadIds, ok \in BOOLEAN : MetaDone(u, ok)
  \/ \E i \in RecIds : StopUploaded(i)
  \/ ClearOpened
  \/ ClearKeys
  \/ \E i \in RecIds : StopCleared(i)
  \/ Unmount

(* ---------------------------- specifications --------------------------- *)
vars == <<bufVars, upVars, nameVars, recVars>>

\* the buffer, used by a caller that awaits each asynchronous call
Init == BufInit /\ UpInit /\ NameIdle /\ RecInit /\ supported /\ awaits

Next == BufNext

Spec == Init /\ [][Next]_vars

\* the upload service, with its calls running concurrently
InitUpload ==
  BufInit /\ UpInit /\ NameIdle /\ RecInit /\ supported /\ awaits /\ autoFlush

NextUpload == UpNext

SpecUpload == InitUpload /\ [][NextUpload]_vars

\* the append, flush and read path of the buffer, for the same caller
NextRead ==
  \/ Tick
  \/ DbToggle
  \/ Initialize
  \/ \E sz \in Sizes : AddChunk(sz)
  \/ CallReturn
  \/ \E f \in FlushIds : FlushCall(f)
  \/ \E f \in FlushIds : FlushOpened(f)
  \/ \E f \in FlushIds : FlushPutDone(f)
  \/ \E f \in FlushIds : FlushSettle(f)
  \/ GetAllCall
  \/ GetAllOpened
  \/ GetAllRead
  \/ GetAllReturn

SpecRead == Init /\ [][NextRead]_vars

\* the buffer, used by callers that do not await its asynchronous calls:
\* appends, flushes and reads overlap, and the store answers every request
InitAsync == BufInit /\ UpInit /\ NameIdle /\ RecInit /\ supported /\ ~awaits

NextAsync ==
  \/ Tick
  \/ \E sz \in Sizes : AddChunk(sz)
  \/ CallReturn
  \/ \E f \in FlushIds : FlushCall(f)
  \/ \E f \in FlushIds : FlushOpened(f)
  \/ \E f \in FlushIds : FlushPutDone(f)
  \/ \E f \in FlushIds : FlushSettle(f)
  \/ GetAllCall
  \/ GetAllOpened
  \/ GetAllRead
  \/ GetAllReturn

SpecAsync == InitAsync /\ [][NextAsync]_vars

\* sanitizeFilename, applied to each filename of Filenames
\* the recorder component with the buffer it creates and the upload service
\* it calls: the buffer is created with autoFlush: true, nothing serializes
\* the event handlers, and the store answers every request
InitRecorder ==
  /\ BufInit /\ UpInit /\ NameIdle /\ RecInit
  /\ autoFlush
  /\ ~awaits

NextRecorder == RecNext

SpecRecorder == InitRecorder /\ [][NextRecorder]_vars

InitSanitize ==
  /\ BufInit /\ UpInit /\ RecInit /\ supported /\ awaits /\ autoFlush
  /\ filename \in Filenames
  /\ safeFilename = <<>>
  /\ namePc = "call"

NextSanitize == SanitizeFilename

SpecSanitize == InitSanitize /\ [][NextSanitize]_vars

(* ======================= properties of the buffer ====================== *)
\* one buffer session: initialize() was called, found no older records, and
\* clear() has not been called since
OneSession == session.inits >= 1 /\ ~session.dirty /\ ~session.cleared

SortedByTs(cs) ==
  \A i \in 1..Len(cs) : \A j \in 1..Len(cs) :
    i < j => cs[i].timestamp <= cs[j].timestamp

NoDuplicate(cs) ==
  \A i \in 1..Len(cs) : \A j \in 1..Len(cs) :
    i # j => cs[i].blob.id # cs[j].blob.id

\* the 80% rule on the in-memory totals
SizeNear(cs) == 10 * SumSizes(cs) >= 8 * maxSize
DurationNear(t, st) == 10 * (t - st) >= 8 * maxDuration * 1000

\* C1: whatever chunks were appended in a session and whatever was spilled,
\* a getAllChunks() that read the store returns the chunks in ascending
\* timestamp order, none twice, as many as addChunk was called.
C1_GetAllChunksComplete ==
  (ga.pc = "done" /\ ~ga.readFailed /\ OneSession)
    => /\ SortedByTs(ga.result)
       /\ NoDuplicate(ga.result)
       /\ Len(ga.result) = Len(appended)

\* C2: with autoFlush enabled and the totals below the limits, getStats()
\* after initialize() and n appends returns chunkCount = n and totalSize = the
\* sum of the n sizes.
C2_StatsAfterAppends ==
  (/\ lastCall.op = "getStats"
   /\ autoFlush /\ session.inits >= 1 /\ OneSession
   /\ Len(appended) >= 1 /\ chunks = appended
   /\ ~SizeNear(appended) /\ ~DurationNear(now, startTime))
    => /\ ~lastCall.threw
       /\ lastCall.chunkCount = Len(appended)
       /\ lastCall.totalSize = SumSizes(appended)

\* C3: an addChunk that leaves the totals at or above 80% of the maximum size
\* or duration, with autoFlush enabled, starts a spill of the in-memory chunks.
C3_AutoFlushSpills ==
  [][(/\ session'.adds = session.adds + 1
      /\ autoFlush /\ session.inits >= 1
      /\ (SizeNear(chunks') \/ DurationNear(now, startTime)))
       => \E f \in FlushIds : fl[f].pc = "idle" /\ fl'[f].pc = "open"]_vars

\* C4: with the duration below its threshold, isNearLimit() returns true
\* exactly when the in-memory size is at least 0.8 x maxSize.
C4_NearLimitThreshold ==
  (/\ lastCall.op = "isNearLimit"
   /\ session.inits >= 1
   /\ ~DurationNear(now, startTime))
    => /\ ~lastCall.threw
       /\ lastCall.near = SizeNear(chunks)

\* C5: createCompleteFinalBlob joins the payloads of all chunks of the session
\* in timestamp order, so its size is the sum of the sizes of all appended
\* chunks, spilled or not.
C5_FinalBlobComplete ==
  (ga.pc = "done" /\ ~ga.readFailed /\ OneSession)
    => /\ ga.blob.parts = BlobParts(SortByTs(appended))
       /\ ga.blob.size = SumSizes(appended)

\* C6: when clear() has completed, getStats().chunkCount is 0 and the store
\* holds no record of the recording id.
C6_ClearEmpties ==
  cl.pc = "done"
    => LET r == getStats(chunks, startTime, now, 1)
       IN /\ ~r.threw
          /\ r.chunkCount = 0
          /\ RecordsOf(store, recordingId) = {}

\* C7: a flush that cannot write to the store hands the storage error to the
\* caller: the explicit call is rejected with it, and an addChunk whose
\* auto-flush meets an unavailable store surfaces it too.
C7_FlushErrorPropagates ==
  [][/\ \A f \in FlushIds :
          (fl[f].pc \in {"open", "put"} /\ fl'[f].pc = "rejected")
            => fl'[f].err = "StorageError" /\ fl'[f].origin = "explicit"
     /\ (/\ session'.adds = session.adds + 1
         /\ autoFlush /\ session.inits >= 1 /\ ~dbUp
         /\ (SizeNear(chunks') \/ DurationNear(now, startTime)))
          => lastCall'.err = "StorageError"]_vars

\* what clear() does achieve: the in-memory list is empty, and the records
\* are gone when the store answered every request
ClearEmptiesWhenStoreAnswers ==
  cl.pc = "done"
    => /\ chunks = <<>>
       /\ ~cl.failed => RecordsOf(store, recordingId) = {}

\* the explicit half of C7 alone
FlushRejectsWithStorageError ==
  \A f \in FlushIds :
    fl[f].pc = "rejected" => fl[f].err = "StorageError"

\* C8: when the store cannot be read, getAllChunks() still returns, and what
\* it returns is the in-memory list, in append order.
C8_ReadFallback ==
  (ga.pc = "done" /\ ga.readFailed)
    => /\ ~ga.threw
       /\ ga.result = chunks
       /\ ga.result = ga.mem
       /\ \A i \in 1..Len(ga.result) : \A j \in 1..Len(ga.result) :
            i < j => ga.result[i].blob.id < ga.result[j].blob.id

\* a failed read with chunks in memory and older chunks in the store
C8_Witness ==
  /\ ga.pc = "done" /\ ga.readFailed
  /\ Len(ga.result) >= 2
  /\ RecordsOf(store, recordingId) # {}

\* C1 and C5 restricted to sessions whose chunks carry distinct timestamps
DistinctTimestamps ==
  \A i \in 1..Len(appended) : \A j \in 1..Len(appended) :
    i # j => appended[i].timestamp # appended[j].timestamp

GetAllCompleteIfDistinct ==
  (ga.pc = "done" /\ ~ga.readFailed /\ OneSession /\ DistinctTimestamps)
    => /\ SortedByTs(ga.result)
       /\ NoDuplicate(ga.result)
       /\ Len(ga.result) = Len(appended)
       /\ ga.blob.parts = BlobParts(SortByTs(appended))
       /\ ga.blob.size = SumSizes(appended)

(* ==================== properties of the upload service ================= *)
\* the upload met a failure: no principal, a failed transmission, or a
\* cancellation seen by the simulation loop
Failed(u) ==
  up[u].auth = "fail" \/ up[u].tx = "fail" \/ up[u].sawAbort

\* C9: uploadVideo never throws: whatever authentication, transmission, the
\* metadata insert and cancellation do, the call returns a result with the
\* upload id and a success flag, and the flag is false, with an error
\* description, on every failure.
C9_UploadNeverThrows ==
  \A u \in UploadIds :
    /\ up[u].pc # "threw"
    /\ up[u].pc = "returned"
         => /\ up[u].result.uploadId = u
            /\ Failed(u) => (~up[u].result.success
                             /\ up[u].result.error # "none")
            /\ ~Failed(u) => up[u].result.success

\* one upload has failed in transmission after being cancelled, another has
\* failed for want of a principal, and both calls have returned
C9_Witness ==
  \E u \in UploadIds : \E v \in UploadIds :
    /\ up[u].pc = "returned" /\ up[u].tx = "fail" /\ up[u].aborted
    /\ up[v].pc = "returned" /\ up[v].auth = "fail"
    /\ ~up[u].result.success /\ ~up[v].result.success

StatusRank(st) ==
  CASE st = "pending" -> 1
    [] st = "uploading" -> 2
    [] st = "processing" -> 3
    [] st = "completed" -> 4
    [] OTHER -> 5

\* C10: the statuses of the successive progress events of an upload follow
\* pending -> uploading -> processing -> completed: a later event never
\* carries an earlier status than a previous event.
C10_StatusNeverGoesBack ==
  \A u \in UploadIds :
    \A i \in 1..Len(events[u]) : \A j \in 1..Len(events[u]) :
      i < j => StatusRank(events[u][i].status) <= StatusRank(events[u][j].status)

\* the other half of C10: error and cancelled follow uploading or processing
FailureStatusOnlyAfterStart ==
  \A u \in UploadIds :
    \A k \in 1..Len(events[u]) :
      events[u][k].status \in {"error", "cancelled"}
        => k > 1 /\ events[u][k - 1].status \in {"uploading", "processing"}

Terminal == {"completed", "error", "cancelled"}

\* C11: terminal states are final: after an event with status completed,
\* error or cancelled has been delivered for an upload, no further event is
\* delivered for it, so such an event can only be the last one.
C11_TerminalIsFinal ==
  \A u \in UploadIds :
    \A k \in 1..Len(events[u]) :
      events[u][k].status \in Terminal => k = Len(events[u])

\* one upload was cancelled and its transmission failed afterwards, another
\* failed with an error event, and both calls have returned
C11_Witness ==
  \E u \in UploadIds : \E v \in UploadIds :
    /\ up[u].pc = "returned" /\ up[u].aborted /\ up[u].tx = "fail"
    /\ events[u] # <<>>
    /\ events[u][Len(events[u])].status = "cancelled"
    /\ up[v].pc = "returned" /\ ~up[v].aborted
    /\ events[v] # <<>>
    /\ events[v][Len(events[v])].status = "error"

CancelledEvents(u) ==
  {k \in 1..Len(events[u]) : events[u][k].status = "cancelled"}

\* C12: an upload with a progress callback that was cancelled has exactly
\* one cancelled event, and it is its last event: neither the simulation
\* loop, nor a later failure or completion, nor another cancelUpload or
\* cancelAllUploads adds an event.
C12_CancelledOnce ==
  \A u \in UploadIds :
    /\ Cardinality(CancelledEvents(u)) <= 1
    /\ (up[u].aborted /\ events[u] # <<>>)
         => /\ Cardinality(CancelledEvents(u)) = 1
            /\ events[u][Len(events[u])].status = "cancelled"

\* a chunked upload was cancelled during the simulation, the loop noticed
\* it after a further timer step, and the call has returned
C12_Witness ==
  \E u \in UploadIds :
    /\ up[u].strategy = "chunked" /\ up[u].aborted /\ up[u].sawAbort
    /\ up[u].uploadedBytes > 0
    /\ up[u].pc = "returned"
    /\ Cardinality(CancelledEvents(u)) = 1

\* the percentage values of the events delivered for upload u, in order
Percentages(u) == [k \in 1..Len(events[u]) |-> events[u][k].percentage]

\* the call has returned success for an upload with a progress callback
\* that was never cancelled
Succeeded(u) ==
  /\ up[u].pc = "returned" /\ up[u].result.success
  /\ events[u] # <<>> /\ ~up[u].aborted

\* C13: a blob no larger than twice the chunk size is uploaded with the
\* direct strategy, and a successful upload delivers exactly two progress
\* events: 0% then 100%.
C13_DirectTwoEvents ==
  \A u \in UploadIds :
    up[u].size <= chunkSize * 2
      => /\ up[u].strategy \in {"none", "direct"}
         /\ Succeeded(u) => Percentages(u) = <<0, 100>>

\* C14: a blob larger than twice the chunk size is uploaded with the chunked
\* strategy, and the percentages of the events of a successful upload never
\* decrease and end at 100.
C14_ChunkedMonotone ==
  \A u \in UploadIds :
    up[u].size > chunkSize * 2
      => /\ up[u].strategy \in {"none", "chunked"}
         /\ Succeeded(u)
              => /\ \A i \in 1..Len(events[u]) : \A j \in 1..Len(events[u]) :
                      i < j => Percentages(u)[i] <= Percentages(u)[j]
                 /\ Percentages(u)[Len(events[u])] = 100

\* the chunked strategy alone does report a non-decreasing percentage: the
\* events of the simulation loop, taken by themselves, never go back
SimulationPercentagesGrow ==
  \A u \in UploadIds :
    \A i \in 1..Len(events[u]) : \A j \in 1..Len(events[u]) :
      (i < j /\ events[u][i].bytesUploaded > 0 /\ events[u][j].bytesUploaded > 0)
        => Percentages(u)[i] <= Percentages(u)[j]

\* C15: the cancellation handle is released on every exit of uploadVideo:
\* a returned call is not active, and an active upload has started and has
\* neither returned nor been cancelled.
C15_HandleReleased ==
  \A u \in UploadIds :
    /\ up[u].pc = "returned" => u \notin activeUploads
    /\ u \in activeUploads
         => /\ up[u].pc \in {"auth", "sim", "transmit", "meta"}
            /\ ~up[u].aborted

\* one call has returned success and another has returned a failed
\* transmission, neither was cancelled, and no upload is active
C15_Witness ==
  \E u \in UploadIds : \E v \in UploadIds :
    /\ up[u].pc = "returned" /\ up[u].result.success /\ ~up[u].aborted
    /\ up[v].pc = "returned" /\ up[v].tx = "fail" /\ ~up[v].aborted
    /\ activeUploads = {}

\* C16: cancelUpload(id) acts on its own task only: without a controller
\* for the id nothing changes and no event is delivered, and in every case
\* each other upload keeps its state, its controller, its callback and its
\* events.
C16_CancelOnlyItsTask ==
  [][\A u \in UploadIds :
       CancelUpload(u)
         => /\ u \notin activeUploads => UNCHANGED upVars
            /\ \A v \in UploadIds \ {u} :
                 /\ up'[v] = up[v]
                 /\ events'[v] = events[v]
                 /\ (v \in activeUploads') = (v \in activeUploads)
                 /\ (v \in progressCallbacks') = (v \in progressCallbacks)]_vars

\* one upload was cancelled and is still in flight while another, not
\* cancelled, is active in its simulation loop and has received progress
C16_Witness ==
  \E u \in UploadIds : \E v \in UploadIds \ {u} :
    /\ up[u].aborted /\ up[u].pc \in {"auth", "sim", "transmit", "meta"}
    /\ events[u] # <<>>
    /\ events[u][Len(events[u])].status = "cancelled"
    /\ ~up[v].aborted /\ v \in activeUploads /\ v \in progressCallbacks
    /\ up[v].pc = "sim" /\ up[v].uploadedBytes > 0

\* C17: without a principal uploadVideo returns success = false with the
\* authentication error, nothing is sent to the object store and no
\* metadata row is written.
C17_NoPrincipalFails ==
  \A u \in UploadIds :
    up[u].auth = "fail"
      => /\ up[u].pc = "returned"
         /\ ~up[u].result.success
         /\ up[u].result.error = "User not authenticated"
         /\ up[u].tx = "none" /\ up[u].attempts = 0
         /\ u \notin objects
         /\ u \notin rows

\* a call with a progress callback has returned for want of a principal
C17_Witness ==
  \E u \in UploadIds :
    /\ up[u].auth = "fail" /\ up[u].pc = "returned"
    /\ events[u] # <<>>
    /\ events[u][Len(events[u])].status = "error"

\* C18: a failed metadata insert does not revert the upload: the call
\* returns success = true with the file path, the object is stored, and an
\* upload that was not cancelled ends with status completed at 100%.
C18_MetadataFailureKeepsSuccess ==
  \A u \in UploadIds :
    up[u].meta = "fail"
      => /\ up[u].pc = "returned"
         /\ up[u].result.success /\ up[u].result.hasPath
         /\ up[u].result.error = "none"
         /\ u \in objects
         /\ (events[u] # <<>> /\ ~up[u].aborted)
              => /\ events[u][Len(events[u])].status = "completed"
                 /\ events[u][Len(events[u])].percentage = 100

\* the transmission succeeded, the insert failed, and the call has
\* returned to a caller with a progress callback
C18_Witness ==
  \E u \in UploadIds :
    /\ up[u].tx = "ok" /\ up[u].meta = "fail" /\ up[u].pc = "returned"
    /\ u \notin rows
    /\ events[u] # <<>> /\ ~up[u].aborted

\* C20: a failed transmission is retried: uploadVideo reports the failure
\* of an upload that was not cancelled only after more than one attempt,
\* maxRetries attempts at most after the first.
C20_RetriesBeforeFailure ==
  \A u \in UploadIds :
    (up[u].pc = "returned" /\ up[u].tx = "fail" /\ ~up[u].aborted)
      => /\ up[u].attempts > 1
         /\ up[u].attempts <= maxRetries + 1

\* storage.upload() is called once per uploadVideo call, whatever it answers
OneAttemptPerUpload ==
  \A u \in UploadIds :
    /\ up[u].attempts <= 1
    /\ up[u].tx # "none" => up[u].attempts = 1

(* ================ properties of the filename sanitization ============== *)
IsSafe(c) == c \in SafeChars

\* the positions of str that hold a character of the class
SafeIdx(str) == {i \in 1..Len(str) : IsSafe(str[i])}

\* the gaps between consecutive characters of the class, numbered from 1,
\* in which str has some other character
Gaps(str) ==
  {Cardinality({j \in SafeIdx(str) : j < i}) :
     i \in {k \in 1..Len(str) :
              /\ ~IsSafe(str[k])
              /\ \E j \in SafeIdx(str) : j < k
              /\ \E j \in SafeIdx(str) : j > k}}

\* out is name with the characters outside the class replaced by '_', with
\* no repeated '_' and no '_' at either end
Sanitized(name, out) ==
  /\ \A i \in 1..Len(out) : IsSafe(out[i]) \/ out[i] = "_"
  /\ SelectSeq(out, IsSafe) = SelectSeq(name, IsSafe)
  /\ Gaps(out) = Gaps(name)
  /\ \A i \in 1..(Len(out) - 1) : ~(out[i] = "_" /\ out[i + 1] = "_")
  /\ out # <<>> => (out[1] # "_" /\ out[Len(out)] # "_")

\* C19 as stated: sanitizeFilename replaces every character outside
\* [A-Za-z0-9.-] by '_', leaves no repeated and no leading or trailing '_',
\* and turns "my video!.webm" into "my_video.webm".
C19_SanitizeAsStated ==
  namePc = "done"
    => /\ Sanitized(filename, safeFilename)
       /\ filename = ExampleName
            => safeFilename = <<"m", "y", "_", "v", "i", "d", "e", "o",
                                ".", "w", "e", "b", "m">>

\* C19, amended: sanitizeFilename replaces every character outside
\* [A-Za-z0-9.-] by '_', leaves no repeated and no leading or trailing '_',
\* and turns "my video!.webm" into "my_video_.webm".
C19_Sanitize ==
  namePc = "done"
    => /\ Sanitized(filename, safeFilename)
       /\ filename = ExampleName
            => safeFilename = <<"m", "y", "_", "v", "i", "d", "e", "o", "_",
                                ".", "w", "e", "b", "m">>

\* "my video!.webm" has been sanitized
C19_Witness ==
  /\ namePc = "done"
  /\ filename = ExampleName
  /\ Len(safeFilename) = 14

\* a filename with a run of characters outside the class between two
\* characters of it, and one at each end, has been sanitized
C19_WitnessRuns ==
  /\ namePc = "done"
  /\ filename = <<" ", "a", "!", "_">>
  /\ safeFilename = <<"a">>

(* =================== further properties of the buffer ================== *)
\* C24: every call of getStats(), isNearLimit() and addChunk() returns
\* normally, whatever the buffer holds and whatever the configuration.
C24_CallsReturnNormally ==
  lastCall.op \in {"getStats", "isNearLimit", "addChunk"} => ~lastCall.threw

\* without autoFlush addChunk does return normally
AddChunkReturnsWithoutAutoFlush ==
  (lastCall.op = "addChunk" /\ ~autoFlush) => ~lastCall.threw

\* chunk c is in the list cs
InList(c, cs) == \E i \in 1..Len(cs) : cs[i] = c

\* chunk c has a record under its key in the store st
HasRecord(c, st) ==
  \E r \in st : r.id = ChunkKey(recordingId, c.timestamp)

\* C27: a failed flush loses no data: the step in which flushToIndexedDB
\* fails leaves the in-memory list as it was, and every chunk appended in
\* the session is then in memory or under its key in the store.
C27_FailedFlushKeepsMemory ==
  [][\A f \in FlushIds :
       (fl[f].pc # "rejected" /\ fl'[f].pc = "rejected")
         => /\ chunks' = chunks
            /\ \A i \in 1..Len(appended') :
                 InList(appended'[i], chunks') \/ HasRecord(appended'[i], store')]_vars

\* a write was rejected after the first chunk had been written: the flush
\* has failed, the two chunks are in memory and the store holds no record
C27_Witness ==
  \E f \in FlushIds :
    /\ fl[f].pc = "rejected" /\ fl[f].idx >= 2
    /\ Len(chunks) >= 2
    /\ chunks = appended
    /\ RecordsOf(store, recordingId) = {}

\* C28: a successful flush persists every in-memory chunk as a record of
\* its own: when a flush of k chunks completes, the store holds k more
\* records of the recording than when the flush began to write.
C28_FlushAddsARecordPerChunk ==
  [][\A f \in FlushIds :
       (fl[f].pc = "put" /\ fl'[f].pc = "resolved")
         => LET before == IF txOwner = FlushTx(f) THEN txUndo ELSE store
            IN Cardinality(RecordsOf(store', recordingId))
                 = Cardinality(RecordsOf(before, recordingId))
                   + Len(FlushArray(f))]_vars

\* with distinct timestamps in the session a flush does add a record per chunk
FlushAddsARecordIfDistinct ==
  [][\A f \in FlushIds :
       (fl[f].pc = "put" /\ fl'[f].pc = "resolved" /\ OneSession
        /\ \A i \in 1..Len(appended) : \A j \in 1..Len(appended) :
             i # j => appended[i].timestamp # appended[j].timestamp)
         => LET before == IF txOwner = FlushTx(f) THEN txUndo ELSE store
            IN Cardinality(RecordsOf(store', recordingId))
                 = Cardinality(RecordsOf(before, recordingId))
                   + Len(FlushArray(f))]_vars

\* C29: initialize() resets the whole session: what getAllChunks() returns
\* after initialize() holds only chunks appended after that initialize().
C29_InitializeResetsSession ==
  (ga.pc = "done" /\ session.inits >= 1)
    => \A i \in 1..Len(ga.result) : InList(ga.result[i], appended)

(* ============== further properties of the upload service =============== *)
\* the upload has a progress callback and has met a failure: its call has
\* returned success = false, or it was cancelled
FailedWithCallback(u) ==
  /\ events[u] # <<>>
  /\ \/ up[u].pc = "returned" /\ ~up[u].result.success
     \/ up[u].aborted

\* C21: every failure of an upload with a progress callback (no principal,
\* a failed transmission, a cancellation) is reported by an event with
\* status error or cancelled and an error description.
C21_FailureEventDescribed ==
  \A u \in UploadIds :
    FailedWithCallback(u)
      => LET last == events[u][Len(events[u])]
         IN /\ last.status \in {"error", "cancelled"}
            /\ last.error # "none"

\* every such failure does end with an event of status error or cancelled
FailureEventHasStatus ==
  \A u \in UploadIds :
    FailedWithCallback(u)
      => events[u][Len(events[u])].status \in {"error", "cancelled"}

\* C30: a cancelled upload never completes: its call returns
\* success = false and no metadata row is written for it.
C30_CancelledNeverCompletes ==
  \A u \in UploadIds :
    up[u].aborted
      => /\ u \notin rows
         /\ up[u].pc = "returned" => ~up[u].result.success

\* the same for an upload cancelled after its transmission, while the
\* metadata insert is pending: its 'processing' event precedes 'cancelled'
CancelWhileProcessingFails ==
  \A u \in UploadIds :
    (/\ up[u].pc = "returned"
     /\ \E i \in 1..Len(events[u]) : \E j \in 1..Len(events[u]) :
          i < j /\ events[u][i].status = "processing"
                /\ events[u][j].status = "cancelled")
      => ~up[u].result.success

(* ============ properties of the buffer under overlapping calls ========= *)
\* C25: no appended chunk is lost when appends and flushes overlap: once
\* every flush that was started has completed, each chunk appended so far
\* is in the in-memory list or under its key in the store.
C25_NoChunkLost ==
  (\A f \in FlushIds : fl[f].pc = "idle")
    => \A i \in 1..Len(appended) :
         InList(appended[i], chunks) \/ HasRecord(appended[i], store)

\* C26: getAllChunks() called while a flush is in flight never returns the
\* same chunk twice.
C26_NoChunkTwice ==
  ga.pc = "done"
    => \A i \in 1..Len(ga.result) : \A j \in 1..Len(ga.result) :
         i # j => ga.result[i].blob.id # ga.result[j].blob.id

(* --------------------------- recorder properties ----------------------- *)
\* the call of handleRecordingStop made for recorder i has returned
StopHandled(i) == mr[i].h \in {"skipped", "returned"}

\* C23: when the stop event of a recording that was started once and stopped
\* with the stop button has been handled, the buffered chunks have been joined
\* and handed to uploadVideo, and the recorder has left its recording state.
C23_StoppedIsHandedOver ==
  \A i \in RecIds :
    StopHandled(i) /\ mr[i].cause = "stop" /\ started = 1 /\ mounted
      => mr[i].uploadId # 0 /\ ~isRecording

\* a recording whose stop handler saw a recordingId is handed to uploadVideo
StopWithIdIsHandedOver ==
  \A i \in RecIds :
    StopHandled(i) /\ mr[i].closureId # 0 => mr[i].uploadId # 0

\* the upload of recording i has failed and nobody cancelled it
UploadFailed(i) ==
  /\ mr[i].uploadId # 0
  /\ up[mr[i].uploadId].pc = "returned"
  /\ ~up[mr[i].uploadId].result.success
  /\ ~up[mr[i].uploadId].aborted

\* the payloads the buffer holds, in memory or in the store
HeldParts ==
  {chunks[k].blob.id : k \in 1..Len(chunks)} \cup {r.blob.id : r \in store}

\* C22: when the upload of the finalized blob of a recording has failed, the
\* buffer of that recording still holds the chunks of the blob after
\* handleRecordingStop has gone on.
C22_FailedUploadKeepsChunks ==
  \A i \in RecIds :
    (/\ UploadFailed(i)
     /\ mr[i].cause = "stop" /\ mounted
     /\ bufferRef = i
     /\ mr[i].h \in {"clear", "returned"})
      => \A k \in 1..Len(mr[i].blob.parts) : mr[i].blob.parts[k] \in HeldParts

\* the recorder's buffer never writes to the store
RecorderStoreEmpty == store = {}


====
